---- MODULE Spec2Model ----
(***************************************************************************)
(* Model of microtable's Table<T> (src/src/lib.rs): a primary map          *)
(* key -> record and a derived index category -> set of keys.              *)
(*                                                                         *)
(* A record is modelled by what the TableRecord trait and PartialEq can    *)
(* observe of it: its key, its set of categories, and one opaque payload   *)
(* field (the "title" of the test fixture's Book).                         *)
(* Every public method is a pure operator from a table [data, index] to    *)
(* the table it leaves behind plus what it returns; an action applies one  *)
(* method to the current table and records the call, the table before the  *)
(* call, and the returned value.                                           *)
(***************************************************************************)
EXTENDS Integers, FiniteSets, Sequences, Bags, TLC

\* ------------------------------------------------------------------ bounds
MaxKey == 3
MaxCat == 2
MaxTitle == 2
MaxOps == 3
MaxList == 2
MaxItems == 2

Keys == 1..MaxKey
Cats == 1..MaxCat
Titles == 1..MaxTitle

\* The sequences over s of length at most n.
SeqsUpTo(s, n) == UNION {[1..m -> s] : m \in 0..n}

\* ------------------------------------------------------------- records
\* A value of the record type T: key(), categories() (as a set: every use of
\* the Vec in the code is insensitive to order and duplicates) and payload.
Records == [key : Keys, cats : SUBSET Cats, title : Titles]

key(r) == r.key

categories(r) == r.cats

\* Placeholders for "no argument" in the call record (0 is no key and no
\* category).
NoRec == [key |-> 0, cats |-> {}, title |-> 0]
NoCb == [kind |-> "None", k |-> 0, cs |-> {}, t |-> 0]

\* ------------------------------------------------------------ callbacks
\* The closures handed to update_with / update_by_cat: deterministic
\* functions of the record they are given.
SetKey(k) == [kind |-> "SetKey", k |-> k, cs |-> {}, t |-> 0]
ShiftKey == [kind |-> "ShiftKey", k |-> 0, cs |-> {}, t |-> 0]
SetCats(cs) == [kind |-> "SetCats", k |-> 0, cs |-> cs, t |-> 0]
SetTitle(t) == [kind |-> "SetTitle", k |-> 0, cs |-> {}, t |-> t]
\* upsert's closure |old_val| *old_val = new_val.clone()
Replace(r) == [kind |-> "Replace", k |-> r.key, cs |-> r.cats, t |-> r.title]

Callbacks ==
    {SetKey(k) : k \in Keys} \cup {ShiftKey}
        \cup {SetCats(cs) : cs \in SUBSET Cats} \cup {SetTitle(t) : t \in Titles}

\* cb(&mut val): the record after the closure ran on it.
Apply(cb, r) ==
    CASE cb.kind = "SetKey" -> [r EXCEPT !.key = cb.k]
      [] cb.kind = "ShiftKey" -> [r EXCEPT !.key = (r.key % MaxKey) + 1]
      [] cb.kind = "SetCats" -> [r EXCEPT !.cats = cb.cs]
      [] cb.kind = "SetTitle" -> [r EXCEPT !.title = cb.t]
      [] cb.kind = "Replace" -> [key |-> cb.k, cats |-> cb.cs, title |-> cb.t]
      [] OTHER -> r

\* ---------------------------------------------------------- map helpers
\* HashMap::insert(k, v)
MapPut(m, k, v) == [x \in (DOMAIN m) \cup {k} |-> IF x = k THEN v ELSE m[x]]

\* HashMap::remove(k)
MapDel(m, k) == [x \in (DOMAIN m) \ {k} |-> m[x]]

EmptyMap == [x \in {} |-> 0]

\* A table value.
Tbl(d, i) == [data |-> d, index |-> i]

\* Table::new
new == Tbl(EmptyMap, EmptyMap)

\* Table::len
len(t) == Cardinality(DOMAIN t.data)

\* Table::contains_key
contains_key(t, k) == k \in DOMAIN t.data

\* Table::contains_cat
contains_cat(t, c) == c \in DOMAIN t.index

\* Table::get: the set holding the stored record, empty for None.
get(t, k) == IF k \in DOMAIN t.data THEN {t.data[k]} ELSE {}

\* Table::iter_cats
iter_cats(t) == DOMAIN t.index

\* Table::find: the records of the keys of the bucket that data resolves
\* (filter_map drops a key data does not hold); unordered.
find(t, c) ==
    IF c \notin DOMAIN t.index THEN {}
    ELSE {t.data[k] : k \in t.index[c] \cap DOMAIN t.data}

\* find_many that appends find(c) for each given category, without the
\* HashSet of keys.
find_many_concat(t, cats) ==
    LET hit(r) == {p \in (DOMAIN cats) \X (DOMAIN t.data) :
                      /\ cats[p[1]] \in DOMAIN t.index
                      /\ p[2] \in t.index[cats[p[1]]]
                      /\ t.data[p[2]] = r}
        recs == {r \in {t.data[k] : k \in DOMAIN t.data} : hit(r) # {}}
    IN [r \in recs |-> Cardinality(hit(r))]

\* Table::find_many: the keys of the known categories of the slice are
\* collected into a HashSet, then resolved through data.  The returned Vec
\* is modelled as a bag of records (its order is the HashSet's).
find_many(t, cats) ==
    LET keys == UNION {t.index[cats[i]] :
                         i \in {j \in DOMAIN cats : cats[j] \in DOMAIN t.index}}
        live == keys \cap DOMAIN t.data
    IN [r \in {t.data[k] : k \in live} |-> Cardinality({k \in live : t.data[k] = r})]

\* Table::clear_empty_categories: index.retain(|_, keys| keys.len() > 0)
clear_empty_categories(i) ==
    [c \in {x \in DOMAIN i : i[x] # {}} |-> i[c]]

\* insert that adds the key to the buckets that exist and creates none.
insert_existing_buckets(t, val) ==
    LET k == key(val) IN
    IF k \in DOMAIN t.data
    THEN [data |-> t.data, index |-> t.index, err |-> "KeyCollision"]
    ELSE [data |-> MapPut(t.data, k, val),
          index |-> [c \in DOMAIN t.index |->
                        IF c \in categories(val) THEN t.index[c] \cup {k}
                        ELSE t.index[c]],
          err |-> "Ok"]

\* insert with the index written before the collision check.
insert_index_first(t, val) ==
    LET k == key(val)
        i == [c \in (DOMAIN t.index) \cup categories(val) |->
                IF c \in categories(val)
                THEN (IF c \in DOMAIN t.index THEN t.index[c] ELSE {}) \cup {k}
                ELSE t.index[c]]
    IN IF k \in DOMAIN t.data
       THEN [data |-> t.data, index |-> i, err |-> "KeyCollision"]
       ELSE [data |-> MapPut(t.data, k, val), index |-> i, err |-> "Ok"]

\* Table::insert. err is "Ok" or "KeyCollision".
insert(t, val) ==
    LET k == key(val) IN
    IF k \in DOMAIN t.data
    THEN [data |-> t.data, index |-> t.index, err |-> "KeyCollision"]
    ELSE [data |-> MapPut(t.data, k, val),
          index |-> [c \in (DOMAIN t.index) \cup categories(val) |->
                        IF c \in categories(val)
                        THEN (IF c \in DOMAIN t.index THEN t.index[c] ELSE {}) \cup {k}
                        ELSE t.index[c]],
          err |-> "Ok"]

\* remove without the clear_empty_categories() call.
remove_no_prune(t, k) ==
    IF k \notin DOMAIN t.data
    THEN [data |-> t.data, index |-> t.index, out |-> {}]
    ELSE LET value == t.data[k] IN
         [data |-> MapDel(t.data, k),
          index |-> [c \in DOMAIN t.index |->
                       IF c \in categories(value) THEN t.index[c] \ {k}
                       ELSE t.index[c]],
          out |-> {value}]

\* Table::remove. out is the Option<T> as a set.  The loop body prunes the
\* key from each bucket of the removed value's categories and retains the
\* non-empty buckets; with no category the loop body never runs.
remove(t, k) ==
    IF k \notin DOMAIN t.data
    THEN [data |-> t.data, index |-> t.index, out |-> {}]
    ELSE LET value == t.data[k]
             pruned == [c \in DOMAIN t.index |->
                          IF c \in categories(value) THEN t.index[c] \ {k}
                          ELSE t.index[c]]
         IN [data |-> MapDel(t.data, k),
             index |-> IF categories(value) = {} THEN t.index
                       ELSE clear_empty_categories(pruned),
             out |-> {value}]

\* remove_cat that also prunes the removed keys from every other bucket.
remove_cat_cascade(t, cat) ==
    IF cat \notin DOMAIN t.index
    THEN [data |-> t.data, index |-> t.index, out |-> {}]
    ELSE LET keys == t.index[cat] IN
         [data |-> [x \in (DOMAIN t.data) \ keys |-> t.data[x]],
          index |-> clear_empty_categories(
                        [c \in (DOMAIN t.index) \ {cat} |-> t.index[c] \ keys]),
          out |-> {t.data[x] : x \in keys \cap DOMAIN t.data}]

\* Table::remove_cat
remove_cat(t, cat) ==
    IF cat \notin DOMAIN t.index
    THEN [data |-> t.data, index |-> t.index, out |-> {}]
    ELSE LET keys == t.index[cat] IN
         [data |-> [x \in (DOMAIN t.data) \ keys |-> t.data[x]],
          index |-> MapDel(t.index, cat),
          out |-> {t.data[x] : x \in keys \cap DOMAIN t.data}]

\* update_with without the clear_empty_categories() call.
update_with_no_prune(t, old_key, cb) ==
    IF old_key \notin DOMAIN t.data
    THEN [data |-> t.data, index |-> t.index, err |-> "KeyNotFound"]
    ELSE LET old_cats == categories(t.data[old_key])
             val == Apply(cb, t.data[old_key])
             new_key == key(val)
         IN IF new_key # old_key
            THEN LET ins == insert(t, val) IN
                 IF ins.err # "Ok" THEN ins
                 ELSE LET rem == remove(Tbl(ins.data, ins.index), old_key) IN
                      [data |-> rem.data, index |-> rem.index, err |-> "Ok"]
            ELSE LET new_cats == categories(val)
                     i1 == [c \in DOMAIN t.index |->
                              IF c \in old_cats \ new_cats
                              THEN t.index[c] \ {old_key} ELSE t.index[c]]
                     i2 == [c \in (DOMAIN i1) \cup (new_cats \ old_cats) |->
                              IF c \in new_cats \ old_cats
                              THEN (IF c \in DOMAIN i1 THEN i1[c] ELSE {})
                                       \cup {old_key}
                              ELSE i1[c]]
                 IN [data |-> t.data, index |-> i2, err |-> "Ok"]

\* update_with that writes the mutated record over the old entry, renamed or
\* not, and only re-indexes it.
update_with_store_under_old(t, old_key, cb) ==
    IF old_key \notin DOMAIN t.data
    THEN [data |-> t.data, index |-> t.index, err |-> "KeyNotFound"]
    ELSE LET old_cats == categories(t.data[old_key])
             val == Apply(cb, t.data[old_key])
             new_key == key(val)
         IN IF new_key # old_key /\ new_key \in DOMAIN t.data
            THEN [data |-> t.data, index |-> t.index, err |-> "KeyCollision"]
            ELSE LET new_cats == categories(val)
                     i1 == [c \in DOMAIN t.index |->
                              IF c \in old_cats \ new_cats
                              THEN t.index[c] \ {old_key} ELSE t.index[c]]
                     i2 == [c \in (DOMAIN i1) \cup (new_cats \ old_cats) |->
                              IF c \in new_cats \ old_cats
                              THEN (IF c \in DOMAIN i1 THEN i1[c] ELSE {})
                                       \cup {old_key}
                              ELSE i1[c]]
                 IN [data |-> MapPut(t.data, old_key, val),
                     index |-> clear_empty_categories(i2),
                     err |-> "Ok"]

\* update_with whose rename removes the old entry before inserting the new.
update_with_remove_first(t, old_key, cb) ==
    IF old_key \notin DOMAIN t.data
    THEN [data |-> t.data, index |-> t.index, err |-> "KeyNotFound"]
    ELSE LET old_cats == categories(t.data[old_key])
             val == Apply(cb, t.data[old_key])
             new_key == key(val)
         IN IF new_key # old_key
            THEN LET rem == remove(t, old_key) IN
                 insert(Tbl(rem.data, rem.index), val)
            ELSE LET new_cats == categories(val)
                     i1 == [c \in DOMAIN t.index |->
                              IF c \in old_cats \ new_cats
                              THEN t.index[c] \ {old_key} ELSE t.index[c]]
                     i2 == [c \in (DOMAIN i1) \cup (new_cats \ old_cats) |->
                              IF c \in new_cats \ old_cats
                              THEN (IF c \in DOMAIN i1 THEN i1[c] ELSE {})
                                       \cup {old_key}
                              ELSE i1[c]]
                 IN [data |-> t.data,
                     index |-> clear_empty_categories(i2),
                     err |-> "Ok"]

\* Table::update_with. err is "Ok", "KeyNotFound" or "KeyCollision".
\* On the branch new_key = old_key only the index is touched: the mutated
\* clone val is dropped, self.data is not written.
update_with(t, old_key, cb) ==
    IF old_key \notin DOMAIN t.data
    THEN [data |-> t.data, index |-> t.index, err |-> "KeyNotFound"]
    ELSE LET old_cats == categories(t.data[old_key])
             val == Apply(cb, t.data[old_key])
             new_key == key(val)
         IN IF new_key # old_key
            THEN LET ins == insert(t, val) IN
                 IF ins.err # "Ok" THEN ins
                 ELSE LET rem == remove(Tbl(ins.data, ins.index), old_key) IN
                      [data |-> rem.data, index |-> rem.index, err |-> "Ok"]
            ELSE LET new_cats == categories(val)
                     i1 == [c \in DOMAIN t.index |->
                              IF c \in old_cats \ new_cats
                              THEN t.index[c] \ {old_key} ELSE t.index[c]]
                     i2 == [c \in (DOMAIN i1) \cup (new_cats \ old_cats) |->
                              IF c \in new_cats \ old_cats
                              THEN (IF c \in DOMAIN i1 THEN i1[c] ELSE {})
                                       \cup {old_key}
                              ELSE i1[c]]
                 IN [data |-> t.data,
                     index |-> clear_empty_categories(i2),
                     err |-> "Ok"]

\* upsert without the collision check at entry.
upsert_no_check(t, k, new_val) ==
    LET r == IF contains_key(t, k)
             THEN update_with(t, k, Replace(new_val))
             ELSE insert(t, new_val)
    IN [data |-> r.data, index |-> r.index,
        err |-> IF r.err = "Ok" THEN "Ok" ELSE "Panic"]

\* upsert whose insert path stores the record under the key parameter.
upsert_under_key(t, k, new_val) ==
    LET new_key == key(new_val) IN
    IF new_key # k /\ new_key \in DOMAIN t.data
    THEN [data |-> t.data, index |-> t.index, err |-> "KeyCollision"]
    ELSE LET r == IF contains_key(t, k)
                  THEN update_with(t, k, Replace(new_val))
                  ELSE insert(t, [new_val EXCEPT !.key = k])
         IN [data |-> r.data, index |-> r.index,
             err |-> IF r.err = "Ok" THEN "Ok" ELSE "Panic"]

\* upsert whose entry check leaves out new_key != key.
upsert_any_occupied(t, k, new_val) ==
    LET new_key == key(new_val) IN
    IF new_key \in DOMAIN t.data
    THEN [data |-> t.data, index |-> t.index, err |-> "KeyCollision"]
    ELSE LET r == IF contains_key(t, k)
                  THEN update_with(t, k, Replace(new_val))
                  ELSE insert(t, new_val)
         IN [data |-> r.data, index |-> r.index,
             err |-> IF r.err = "Ok" THEN "Ok" ELSE "Panic"]

\* Table::upsert. err is "Ok" or "KeyCollision", or "Panic" when an inner
\* unwrap() meets an Err (the table is then as the inner call left it).
upsert(t, k, new_val) ==
    LET new_key == key(new_val) IN
    IF new_key # k /\ new_key \in DOMAIN t.data
    THEN [data |-> t.data, index |-> t.index, err |-> "KeyCollision"]
    ELSE LET r == IF contains_key(t, k)
                  THEN update_with(t, k, Replace(new_val))
                  ELSE insert(t, new_val)
         IN [data |-> r.data, index |-> r.index,
             err |-> IF r.err = "Ok" THEN "Ok" ELSE "Panic"]

\* update_by_cat, first loop: run the callback on a copy of each snapshotted
\* record, in iteration order.  "Panic" when data.get(old_key).unwrap()
\* meets None, "KeyCollision" when the new key differs and is occupied.
RECURSIVE check_updates(_, _, _, _)
check_updates(t, cb, keys, i) ==
    IF i > Len(keys) THEN "Ok"
    ELSE LET old_key == keys[i] IN
         IF old_key \notin DOMAIN t.data THEN "Panic"
         ELSE LET new_key == key(Apply(cb, t.data[old_key])) IN
              IF new_key # old_key /\ contains_key(t, new_key) THEN "KeyCollision"
              ELSE check_updates(t, cb, keys, i + 1)

\* update_by_cat, second loop: self.upsert(old_key, new_val).unwrap() for
\* each stored update; orig is the table the copies were taken from.
RECURSIVE commit_updates(_, _, _, _, _)
commit_updates(t, orig, cb, keys, i) ==
    IF i > Len(keys) THEN [data |-> t.data, index |-> t.index, err |-> "Ok"]
    ELSE LET old_key == keys[i]
             r == upsert(t, old_key, Apply(cb, orig.data[old_key]))
         IN IF r.err # "Ok"
            THEN [data |-> r.data, index |-> r.index, err |-> "Panic"]
            ELSE commit_updates(Tbl(r.data, r.index), orig, cb, keys, i + 1)

\* update_by_cat with a single loop that checks each key against the live
\* table and commits its update at once.
RECURSIVE eager_updates(_, _, _, _)
eager_updates(t, cb, keys, i) ==
    IF i > Len(keys) THEN [data |-> t.data, index |-> t.index, err |-> "Ok"]
    ELSE LET old_key == keys[i] IN
         IF old_key \notin DOMAIN t.data
         THEN [data |-> t.data, index |-> t.index, err |-> "Panic"]
         ELSE LET item == Apply(cb, t.data[old_key]) IN
              IF key(item) # old_key /\ contains_key(t, key(item))
              THEN [data |-> t.data, index |-> t.index, err |-> "KeyCollision"]
              ELSE LET r == upsert(t, old_key, item) IN
                   IF r.err # "Ok"
                   THEN [data |-> r.data, index |-> r.index, err |-> "Panic"]
                   ELSE eager_updates(Tbl(r.data, r.index), cb, keys, i + 1)

update_by_cat_eager(t, cat, cb, keys) ==
    IF cat \notin DOMAIN t.index
    THEN [data |-> t.data, index |-> t.index, err |-> "Ok", n |-> 0]
    ELSE LET r == eager_updates(t, cb, keys, 1) IN
         [data |-> r.data, index |-> r.index, err |-> r.err,
          n |-> IF r.err = "Ok" THEN Len(keys) ELSE 0]

\* Table::update_by_cat; keys is the snapshot of index[cat] in the order the
\* HashSet iterates it.  n is the count returned with Ok.
update_by_cat(t, cat, cb, keys) ==
    IF cat \notin DOMAIN t.index
    THEN [data |-> t.data, index |-> t.index, err |-> "Ok", n |-> 0]
    ELSE LET chk == check_updates(t, cb, keys, 1) IN
         IF chk # "Ok"
         THEN [data |-> t.data, index |-> t.index, err |-> chk, n |-> 0]
         ELSE LET r == commit_updates(t, t, cb, keys, 1) IN
              [data |-> r.data, index |-> r.index, err |-> r.err,
               n |-> IF r.err = "Ok" THEN Len(keys) ELSE 0]

\* Deserialize for Table: t.insert(item).unwrap() for each item of the
\* decoded Vec, starting from Table::new(); "Panic" when the unwrap meets
\* Err(KeyCollision).
RECURSIVE deserialize_from(_, _, _)
deserialize_from(t, items, i) ==
    IF i > Len(items) THEN [data |-> t.data, index |-> t.index, err |-> "Ok"]
    ELSE LET r == insert(t, items[i]) IN
         IF r.err # "Ok"
         THEN [data |-> t.data, index |-> t.index, err |-> "Panic"]
         ELSE deserialize_from(Tbl(r.data, r.index), items, i + 1)

deserialize(items) == deserialize_from(new, items, 1)

\* The orders in which a HashSet holding the keys s can be iterated.
Orders(s) ==
    {q \in [1..Cardinality(s) -> s] : \A a, b \in 1..Cardinality(s) : a # b => q[a] # q[b]}

\* ------------------------------------------------------------------ state
VARIABLES
    data,     \* Table.data
    index,    \* Table.index
    op,       \* the last call: method and arguments
    ret,      \* what the last call returned
    data0,    \* Table.data before the last call
    index0,   \* Table.index before the last call
    nops      \* number of calls made so far

vars == <<data, index, op, ret, data0, index0, nops>>

cur == Tbl(data, index)

old == Tbl(data0, index0)

Call(name, k, c, v, cb, keys) ==
    [name |-> name, key |-> k, cat |-> c, val |-> v, cb |-> cb, keys |-> keys,
     items |-> <<>>]

Ret(status, vals, n) == [status |-> status, vals |-> vals, n |-> n]

Init ==
    /\ data = new.data
    /\ index = new.index
    /\ op = Call("new", 0, 0, NoRec, NoCb, <<>>)
    /\ ret = Ret("Ok", {}, 0)
    /\ data0 = new.data
    /\ index0 = new.index
    /\ nops = 0

\* A call can be made: the process has not panicked, and the run is in bounds.
CanCall == ret.status # "Panic" /\ nops < MaxOps

Step(r, call, result) ==
    /\ data' = r.data
    /\ index' = r.index
    /\ op' = call
    /\ ret' = result
    /\ data0' = data
    /\ index0' = index
    /\ nops' = nops + 1

Insert ==
    /\ CanCall
    /\ \E v \in Records :
         LET r == insert(cur, v) IN
         Step(r, Call("insert", 0, 0, v, NoCb, <<>>), Ret(r.err, {}, 0))

Upsert ==
    /\ CanCall
    /\ \E k \in Keys, v \in Records :
         LET r == upsert(cur, k, v) IN
         Step(r, Call("upsert", k, 0, v, NoCb, <<>>), Ret(r.err, {}, 0))

UpdateWith ==
    /\ CanCall
    /\ \E k \in Keys, cb \in Callbacks :
         LET r == update_with(cur, k, cb) IN
         Step(r, Call("update_with", k, 0, NoRec, cb, <<>>), Ret(r.err, {}, 0))

UpdateByCat ==
    /\ CanCall
    /\ \E c \in Cats, cb \in Callbacks :
         \E keys \in (IF c \in DOMAIN index THEN Orders(index[c]) ELSE {<<>>}) :
           LET r == update_by_cat(cur, c, cb, keys) IN
           Step(r, Call("update_by_cat", 0, c, NoRec, cb, keys), Ret(r.err, {}, r.n))

Remove ==
    /\ CanCall
    /\ \E k \in Keys :
         LET r == remove(cur, k) IN
         Step(r, Call("remove", k, 0, NoRec, NoCb, <<>>),
              Ret(IF r.out = {} THEN "None" ELSE "Some", r.out, 0))

RemoveCat ==
    /\ CanCall
    /\ \E c \in Cats :
         LET r == remove_cat(cur, c) IN
         Step(r, Call("remove_cat", 0, c, NoRec, NoCb, <<>>), Ret("Ok", r.out, 0))

\* Table::clear
Clear ==
    /\ CanCall
    /\ Step(new, Call("clear", 0, 0, NoRec, NoCb, <<>>), Ret("Ok", {}, 0))

\* Deserialize for Table: a table is built from a decoded sequence of records.
Deserialize ==
    /\ CanCall
    /\ op.name = "new"
    /\ \E items \in SeqsUpTo(Records, MaxItems) :
         LET r == deserialize(items) IN
         Step(r, [Call("deserialize", 0, 0, NoRec, NoCb, <<>>) EXCEPT !.items = items],
              Ret(r.err, {}, 0))

NextCore == Insert \/ Upsert \/ UpdateWith \/ UpdateByCat \/ Remove \/ Clear

Next == NextCore \/ RemoveCat

\* Every public mutating method, remove_cat included.
Spec == Init /\ [][Next]_vars

\* The same without remove_cat.
SpecCore == Init /\ [][NextCore]_vars

\* Reconstruction of a table from a serialized sequence.
SpecSerde == Init /\ [][Deserialize]_vars

\* ------------------------------------------------------- claim vocabulary
\* The last call returned normally and did not report an error.
Succeeded == ret.status \notin {"KeyCollision", "KeyNotFound", "Panic"}

\* The table is exactly as it was before the last call.
Unchanged == data = data0 /\ index = index0

\* k is a member of the bucket of c.
InBucket(i, c, k) == c \in DOMAIN i /\ k \in i[c]

\* The record the last call's callback makes of the record stored under k
\* before the call.
Mutated(k) == Apply(op.cb, data0[k])

\* The last call was update_with on a present key.
UpdatedPresent == op.name = "update_with" /\ op.key \in DOMAIN data0

\* The last call was upsert on a present key.
UpsertedPresent == op.name = "upsert" /\ op.key \in DOMAIN data0

\* C1: after every successful insert, update_with, upsert, update_by_cat,
\* remove or clear, k is in index[c] if and only if k is in data and c is one
\* of data[k].categories().
C1_IndexMirrorsData ==
    (op.name \in {"insert", "update_with", "upsert", "update_by_cat", "remove", "clear"}
        /\ Succeeded)
    => \A c \in Cats, k \in Keys :
         InBucket(index, c, k) <=> (k \in DOMAIN data /\ c \in categories(data[k]))

\* C2: after insert, update_with, upsert and remove calls, find(c) is exactly
\* the set of stored records that have c among their categories.
C2_FindExact ==
    op.name \in {"new", "insert", "update_with", "upsert", "remove"}
    => \A c \in Cats :
         find(cur, c) = {r \in {data[k] : k \in DOMAIN data} : c \in categories(r)}

\* C3: a successful update_with on a present key whose callback keeps the
\* key leaves get(k) = the callback applied to the record stored before; a
\* successful upsert(k, r) with r.key() = k on a present key leaves get(k) = r.
C3_MutationApplied ==
    /\ (UpdatedPresent /\ ret.status = "Ok" /\ key(Mutated(op.key)) = op.key)
         => get(cur, op.key) = {Mutated(op.key)}
    /\ (UpsertedPresent /\ ret.status = "Ok" /\ key(op.val) = op.key)
         => get(cur, op.key) = {op.val}

\* The record a renaming update_with / upsert stores, and the rename's case.
RenamedTo ==
    IF op.name = "upsert" THEN op.val ELSE Mutated(op.key)

Renamed ==
    /\ UpdatedPresent \/ UpsertedPresent
    /\ ret.status = "Ok"
    /\ key(RenamedTo) # op.key

\* C4: when update_with or upsert succeeds and changes the key from old_key
\* to new_key, old_key is absent from data, get(new_key) is the mutated
\* record, no bucket holds old_key and new_key is in the bucket of every
\* category of the mutated record.
C4_RenameMovesRecord ==
    Renamed =>
        /\ ~contains_key(cur, op.key)
        /\ get(cur, key(RenamedTo)) = {RenamedTo}
        /\ \A c \in DOMAIN index : op.key \notin index[c]
        /\ \A c \in categories(RenamedTo) : InBucket(index, c, key(RenamedTo))

\* The part of C4 the code keeps in every state: the data side of the rename
\* and the new key's buckets.
C4_RenameDataSide ==
    Renamed =>
        /\ ~contains_key(cur, op.key)
        /\ get(cur, key(RenamedTo)) = {RenamedTo}
        /\ \A c \in categories(RenamedTo) : InBucket(index, c, key(RenamedTo))

\* C5: update_with fails with KeyNotFound when the key is absent and with
\* KeyCollision when the callback moves the key onto an occupied one; in
\* both cases data and index are as before, and get(k) is still the
\* pre-update record in the collision case.
C5_UpdateWithFailures ==
    op.name = "update_with" =>
        /\ op.key \notin DOMAIN data0
             => (ret.status = "KeyNotFound" /\ Unchanged)
        /\ (op.key \in DOMAIN data0 /\ key(Mutated(op.key)) # op.key
                /\ key(Mutated(op.key)) \in DOMAIN data0)
             => (ret.status = "KeyCollision" /\ Unchanged
                    /\ get(cur, op.key) = {data0[op.key]})

C5_Witness ==
    /\ UpdatedPresent
    /\ ret.status = "KeyCollision"
    /\ key(Mutated(op.key)) \in DOMAIN data0 \ {op.key}

\* C6: insert fails with KeyCollision exactly when the record's key is
\* already in data, and then data and index are unchanged.
C6_InsertCollision ==
    op.name = "insert" =>
        /\ ret.status = "KeyCollision" <=> key(op.val) \in DOMAIN data0
        /\ ret.status = "KeyCollision" => Unchanged

C6_Witness ==
    /\ op.name = "insert"
    /\ ret.status = "KeyCollision"
    /\ data0[key(op.val)] # op.val
    /\ categories(op.val) \ DOMAIN index0 # {}

\* C7: upsert fails with KeyCollision exactly when the record's key differs
\* from the key parameter and is occupied, and then data and index are
\* unchanged.
C7_UpsertCollision ==
    op.name = "upsert" =>
        /\ ret.status = "KeyCollision"
             <=> (key(op.val) # op.key /\ key(op.val) \in DOMAIN data0)
        /\ ret.status = "KeyCollision" => Unchanged

C7_Witness ==
    /\ UpsertedPresent
    /\ ret.status = "KeyCollision"
    /\ get(cur, op.key) = {data0[op.key]}

\* C8: when update_by_cat fails with KeyCollision, data and index are
\* exactly as before the call.
C8_BulkCollisionAtomic ==
    (op.name = "update_by_cat" /\ ret.status = "KeyCollision") => Unchanged

\* The collision is met at a later key, after an earlier key's update was
\* accepted that would have changed the stored record.
C8_Witness ==
    /\ op.name = "update_by_cat"
    /\ ret.status = "KeyCollision"
    /\ Len(op.keys) >= 2
    /\ check_updates(old, op.cb, <<op.keys[1]>>, 1) = "Ok"
    /\ Mutated(op.keys[1]) # data0[op.keys[1]]

\* C9: when update_by_cat returns Ok(n), n is the number of keys indexed
\* under the category at call time (0 and no change for an unknown
\* category), every one of those records is stored as the callback applied
\* to its previous value under the resulting key, and every record outside
\* the snapshot is unchanged.
C9_BulkApplied ==
    (op.name = "update_by_cat" /\ ret.status = "Ok") =>
        IF op.cat \notin DOMAIN index0
        THEN ret.n = 0 /\ Unchanged
        ELSE /\ ret.n = Cardinality(index0[op.cat])
             /\ \A k \in index0[op.cat] :
                  get(cur, key(Mutated(k))) = {Mutated(k)}
             /\ \A k \in (DOMAIN data0) \ index0[op.cat] :
                  get(cur, k) = {data0[k]}

\* C10: remove of a present key returns the removed record, leaves
\* contains_key false, leaves no record of that key in find(c) for every
\* category of the removed record, and leaves no bucket it emptied in
\* iter_cats(); remove of an absent key returns nothing and changes nothing.
C10_Remove ==
    op.name = "remove" =>
        IF op.key \in DOMAIN data0
        THEN /\ ret.status = "Some"
             /\ ret.vals = {data0[op.key]}
             /\ ~contains_key(cur, op.key)
             /\ \A c \in categories(data0[op.key]) :
                  /\ \A r \in find(cur, c) : key(r) # op.key
                  /\ (c \in DOMAIN index0 /\ index0[c] \ {op.key} = {})
                       => c \notin iter_cats(cur)
        ELSE ret.status = "None" /\ ret.vals = {} /\ Unchanged

\* A present key is removed whose record was alone in one of its buckets and
\* shared another.
C10_Witness ==
    /\ op.name = "remove"
    /\ op.key \in DOMAIN data0
    /\ \E c \in categories(data0[op.key]) : InBucket(index0, c, op.key) /\ index0[c] = {op.key}
    /\ \E c \in categories(data0[op.key]) : InBucket(index0, c, op.key) /\ index0[c] # {op.key}

\* C11: remove_cat(c) removes the bucket of c and, from data, the record of
\* every key of that bucket, returning those records; every other bucket is
\* left exactly as it was; for an unknown c nothing changes and nothing is
\* returned.
C11_RemoveCatNoCascade ==
    op.name = "remove_cat" =>
        IF op.cat \in DOMAIN index0
        THEN /\ DOMAIN index = (DOMAIN index0) \ {op.cat}
             /\ \A c \in DOMAIN index : index[c] = index0[c]
             /\ DOMAIN data = (DOMAIN data0) \ index0[op.cat]
             /\ \A k \in DOMAIN data : data[k] = data0[k]
             /\ ret.vals = {data0[k] : k \in index0[op.cat] \cap DOMAIN data0}
        ELSE Unchanged /\ ret.vals = {}

\* A removed record belonged to another category too, whose bucket still
\* holds its key although data no longer does.
C11_Witness ==
    /\ op.name = "remove_cat"
    /\ \E k \in DOMAIN data0, c \in DOMAIN index :
         /\ InBucket(index0, op.cat, k)
         /\ c \in categories(data0[k])
         /\ k \in index[c]
         /\ k \notin DOMAIN data

\* C12: insert(r) of a record whose key is not present succeeds, get(r.key())
\* is then r, len() grows by one, r.key() is in the bucket of every category
\* of r, and every other record and bucket membership is unchanged.
C12_InsertFresh ==
    (op.name = "insert" /\ key(op.val) \notin DOMAIN data0) =>
        /\ ret.status = "Ok"
        /\ get(cur, key(op.val)) = {op.val}
        /\ len(cur) = len(old) + 1
        /\ \A c \in categories(op.val) : InBucket(index, c, key(op.val))
        /\ \A k \in DOMAIN data0 : get(cur, k) = {data0[k]}
        /\ \A c \in Cats, k \in Keys :
             (k # key(op.val) \/ c \notin categories(op.val))
                => (InBucket(index, c, k) <=> InBucket(index0, c, k))

\* A record is inserted next to another one, into one bucket that exists and
\* one that has to be created.
C12_Witness ==
    /\ op.name = "insert"
    /\ key(op.val) \notin DOMAIN data0
    /\ DOMAIN data0 # {}
    /\ categories(op.val) \cap DOMAIN index0 # {}
    /\ categories(op.val) \ DOMAIN index0 # {}

\* C13: upsert(key, r) on an absent key that does not fail leaves the table
\* insert(r) makes of the same starting table: r stored under r.key() and
\* indexed under its categories, the key parameter ignored.
C13_UpsertAbsentIsInsert ==
    (op.name = "upsert" /\ op.key \notin DOMAIN data0 /\ ret.status = "Ok") =>
        /\ cur = Tbl(insert(old, op.val).data, insert(old, op.val).index)
        /\ get(cur, key(op.val)) = {op.val}
        /\ \A c \in categories(op.val) : InBucket(index, c, key(op.val))
        /\ key(op.val) # op.key => ~contains_key(cur, op.key)

C13_Witness ==
    /\ op.name = "upsert"
    /\ op.key \notin DOMAIN data0
    /\ ret.status = "Ok"
    /\ key(op.val) # op.key
    /\ categories(op.val) # {}

\* C14: in every reachable state no category of the index maps to an empty
\* key set.
C14_NoEmptyBucket ==
    \A c \in DOMAIN index : index[c] # {}

\* An in-place update_with took the last key out of a bucket, and the
\* bucket is gone.
C14_Witness ==
    /\ UpdatedPresent
    /\ ret.status = "Ok"
    /\ key(Mutated(op.key)) = op.key
    /\ \E c \in DOMAIN index0 : index0[c] = {op.key} /\ c \notin DOMAIN index

\* The slices of categories handed to find_many.
CatLists == SeqsUpTo(Cats, MaxList)

\* C15: in every reachable state and for every list of categories cs,
\* find_many(cs) holds exactly the records of the union of find(c) for c in
\* cs, each once.
C15_FindManyIsUnion ==
    \A cs \in CatLists :
        find_many(cur, cs) = SetToBag(UNION {find(cur, cs[i]) : i \in DOMAIN cs})

\* A stored record is in the buckets of two categories, so find_many over
\* both meets it twice.
C15_Witness ==
    \E k \in DOMAIN data : \E c1, c2 \in DOMAIN index :
        c1 # c2 /\ k \in index[c1] /\ k \in index[c2]

\* C16: once update_by_cat's collision check has passed for every
\* snapshotted key, every commit-phase upsert succeeds and the call returns
\* Ok; otherwise it returns Err(KeyCollision) with the table unchanged.
C16_BulkCommitNeverFails ==
    op.name = "update_by_cat" =>
        /\ check_updates(old, op.cb, op.keys, 1) = "Ok" => ret.status = "Ok"
        /\ check_updates(old, op.cb, op.keys, 1) = "KeyCollision"
             => (ret.status = "KeyCollision" /\ Unchanged)

\* The keys of a sequence of records are pairwise distinct.
DistinctKeys(items) ==
    \A i, j \in DOMAIN items : i # j => key(items[i]) # key(items[j])

\* C17: reconstruction from a sequence holding two records of one key
\* returns a KeyCollision error value; from a sequence of distinct keys it
\* yields a table holding exactly those records.
C17_DeserializeReturnsError ==
    op.name = "deserialize" =>
        IF DistinctKeys(op.items)
        THEN /\ ret.status = "Ok"
             /\ {data[k] : k \in DOMAIN data} = {op.items[i] : i \in DOMAIN op.items}
        ELSE ret.status = "KeyCollision"

\* C18: every key update_by_cat snapshots from index[cat] resolves to a
\* record of data, so data.get(old_key).unwrap() does not fail.
C18_SnapshotKeysLive ==
    op.name = "update_by_cat" =>
        /\ \A i \in DOMAIN op.keys : op.keys[i] \in DOMAIN data0
        /\ check_updates(old, op.cb, op.keys, 1) # "Panic"

\* upsert's entry check let the last call through (the check is the only
\* place upsert returns Err(KeyCollision) from).
UpsertPassedCheck ==
    /\ op.name = "upsert"
    /\ ret.status # "KeyCollision"

\* C19: once upsert's entry check has passed, the inner call does not fail:
\* update_with (key present) returns neither KeyNotFound nor KeyCollision,
\* insert (key absent) does not return KeyCollision.
C19_UpsertInnerNeverFails ==
    UpsertPassedCheck =>
        /\ ret.status = "Ok"
        /\ IF op.key \in DOMAIN data0
           THEN update_with(old, op.key, Replace(op.val)).err = "Ok"
           ELSE insert(old, op.val).err = "Ok"

\* upsert renamed a present record (update_with's insert-then-remove path).
C19_Witness ==
    /\ UpsertPassedCheck
    /\ op.key \in DOMAIN data0
    /\ key(op.val) # op.key
    /\ DOMAIN data0 # {op.key}

====
